---- MODULE Spec2Model ----
(***************************************************************************)
(* A model of the 2-D ideal-gas engine of KineticTheorySim                 *)
(* (src/particula.py, src/simulacion.py).                                  *)
(*                                                                         *)
(* Arithmetic.  The program computes with floating-point reals; the model  *)
(* computes with exact integers in fixed units:                            *)
(*   length  : radio_particula (1e-10 m) is 5 units,                       *)
(*   mass    : masa_particula (4.65e-26 kg) is 2 units,                    *)
(*   k_B     : 1 unit.                                                     *)
(* A quotient or square root of the program is modelled exactly: the model *)
(* covers the executions in which every intermediate value of the          *)
(* particle state is an integer in these units (the predicates *Exacto     *)
(* below); an operation whose result is not is not taken.  Temperature and *)
(* pressure, which are quotients that are only recorded, are kept as       *)
(* fractions <<numerator, denominator>>.                                   *)
(*                                                                         *)
(* The per-particle trajectory histories (historial_posiciones,            *)
(* historial_velocidades) are write-only in the engine and are left out.   *)
(***************************************************************************)
EXTENDS Integers, Sequences, FiniteSets, TLC

VARIABLES
    particulas,            \* Simulacion.particulas: sequence of Particula records
    tamano_caja,           \* Simulacion.tamaño_caja
    n_particulas,          \* Simulacion.n_particulas
    dt,                    \* Simulacion.dt
    tiempo_actual,         \* Simulacion.tiempo_actual
    historial_energia,     \* Simulacion.historial_energia
    historial_temperatura, \* Simulacion.historial_temperatura
    historial_presion,     \* Simulacion.historial_presion
    pc,                    \* position inside the running call ("idle": no call is running)
    llamada,               \* arguments and loop counter of the running call
    ultima,                \* the last call that returned, with its arguments
    antes,                 \* particulas as the last call or step found it
    nops                   \* number of calls started so far

vars == <<particulas, tamano_caja, n_particulas, dt, tiempo_actual,
          historial_energia, historial_temperatura, historial_presion,
          pc, llamada, ultima, antes, nops>>

sim_vars == <<tamano_caja, n_particulas, dt, tiempo_actual,
              historial_energia, historial_temperatura, historial_presion>>

(***************************************************************************)
(* Program constants, in model units.                                      *)
(***************************************************************************)
masa_particula == 2
radio_particula == 5
k_B == 1

(***************************************************************************)
(* Bounds of the model.                                                    *)
(***************************************************************************)
MaxOps == 2          \* calls (crear_gas, avanzar, paso) in one run
MaxParticulas == 3   \* particles in the ensemble
MaxPasos == 2        \* the argument of avanzar(pasos)

\* Boxes <<ancho, alto>> handed to crear_gas and to paso; the constructor
\* takes the widths.
Cajas == {<<30, 30>>, <<30, 10>>, <<8, 8>>}
\* Time steps.
Dts == {1}
\* Mean speeds handed to crear_gas.
VMedias == {3}
\* The positions and velocities the random draws of crear_gas are sampled at.
PosMuestras == {<<5, 5>>, <<11, 13>>, <<17, 5>>}
VelMuestras == {<<2, 0>>, <<-2, 0>>, <<5, 4>>}

(***************************************************************************)
(* Particula (src/particula.py)                                            *)
(***************************************************************************)
Abs(x) == IF x < 0 THEN -x ELSE x

Dot(u, v) == u[1] * v[1] + u[2] * v[2]

\* Particula.__init__
Particula(id, masa, radio, posicion, velocidad) ==
    [id |-> id, masa |-> masa, radio |-> radio,
     posicion |-> posicion, velocidad |-> velocidad]

\* mover advancing the first coordinate only.
mover_un_eje(p, d) ==
    [p EXCEPT !.posicion = <<p.posicion[1] + p.velocidad[1] * d, p.posicion[2]>>]

\* Particula.mover: posicion += velocidad * dt
mover(p, d) ==
    [p EXCEPT !.posicion = <<p.posicion[1] + p.velocidad[1] * d,
                             p.posicion[2] + p.velocidad[2] * d>>]

\* colisionar_pared with the clamps of the upper walls left out: the velocity
\* is turned, the position stays where mover put it.
colisionar_pared_sin_ajuste(p, ancho, alto) ==
    LET izq == IF p.posicion[1] - p.radio <= 0
               THEN [p EXCEPT !.velocidad[1] = Abs(p.velocidad[1]),
                              !.posicion[1] = p.radio]
               ELSE p
        der == IF izq.posicion[1] + izq.radio >= ancho
               THEN [izq EXCEPT !.velocidad[1] = -Abs(izq.velocidad[1])]
               ELSE izq
        inf == IF der.posicion[2] - der.radio <= 0
               THEN [der EXCEPT !.velocidad[2] = Abs(der.velocidad[2]),
                                !.posicion[2] = der.radio]
               ELSE der
        sup == IF inf.posicion[2] + inf.radio >= alto
               THEN [inf EXCEPT !.velocidad[2] = -Abs(inf.velocidad[2])]
               ELSE inf
    IN sup

\* colisionar_pared turning the velocity component round at a wall whatever its
\* direction (velocidad = -velocidad in place of +-abs(velocidad)).
colisionar_pared_invierte(p, ancho, alto) ==
    LET izq == IF p.posicion[1] - p.radio <= 0
               THEN [p EXCEPT !.velocidad[1] = -p.velocidad[1],
                              !.posicion[1] = p.radio]
               ELSE p
        der == IF izq.posicion[1] + izq.radio >= ancho
               THEN [izq EXCEPT !.velocidad[1] = -izq.velocidad[1],
                                !.posicion[1] = ancho - izq.radio]
               ELSE izq
        inf == IF der.posicion[2] - der.radio <= 0
               THEN [der EXCEPT !.velocidad[2] = -der.velocidad[2],
                                !.posicion[2] = der.radio]
               ELSE der
        sup == IF inf.posicion[2] + inf.radio >= alto
               THEN [inf EXCEPT !.velocidad[2] = -inf.velocidad[2],
                                !.posicion[2] = alto - inf.radio]
               ELSE inf
    IN sup

\* Particula.colisionar_pared: four tests in sequence, each on the state the
\* previous one left.
colisionar_pared(p, ancho, alto) ==
    LET izq == IF p.posicion[1] - p.radio <= 0
               THEN [p EXCEPT !.velocidad[1] = Abs(p.velocidad[1]),
                              !.posicion[1] = p.radio]
               ELSE p
        der == IF izq.posicion[1] + izq.radio >= ancho
               THEN [izq EXCEPT !.velocidad[1] = -Abs(izq.velocidad[1]),
                                !.posicion[1] = ancho - izq.radio]
               ELSE izq
        inf == IF der.posicion[2] - der.radio <= 0
               THEN [der EXCEPT !.velocidad[2] = Abs(der.velocidad[2]),
                                !.posicion[2] = der.radio]
               ELSE der
        sup == IF inf.posicion[2] + inf.radio >= alto
               THEN [inf EXCEPT !.velocidad[2] = -Abs(inf.velocidad[2]),
                                !.posicion[2] = alto - inf.radio]
               ELSE inf
    IN sup

\* Particula.energia_cinetica: 0.5 * masa * v.v
energia_cinetica(p) == (p.masa * Dot(p.velocidad, p.velocidad)) \div 2

\* Particula.momento_lineal: masa * velocidad
momento_lineal(p) == <<p.masa * p.velocidad[1], p.masa * p.velocidad[2]>>

\* The square of Particula.distancia_a (the norm itself is a square root).
distancia_cuad(p, q) ==
    LET r == <<p.posicion[1] - q.posicion[1], p.posicion[2] - q.posicion[2]>>
    IN Dot(r, r)

\* Particula.colisiona_con: distancia <= radio + radio, compared on the squares.
colisiona_con(p, q) ==
    distancia_cuad(p, q) <= (p.radio + q.radio) * (p.radio + q.radio)

(***************************************************************************)
(* Simulacion (src/simulacion.py): collisions between particles            *)
(***************************************************************************)
EsCuadrado(n) == \E r \in 0..n : r * r = n

Raiz(n) == CHOOSE r \in 0..n : r * r = n

\* cambio_normal with the factor 2 of the elastic formula dropped.
cambio_normal_sin_doble(a1, a2, m1, m2) ==
    (a1 * (m1 - m2) + m2 * a2) - (m1 + m2) * a1

\* The numerator of (v1n_nueva - v1n) * distancia * masa_total for the first
\* particle of a pair, from the 1-D elastic formula
\*   v1n_nueva = (v1n * (m1 - m2) + 2 * m2 * v2n) / masa_total,
\* with a1 = v1 . r12 = v1n * distancia and a2 = v2 . r12 = v2n * distancia.
cambio_normal(a1, a2, m1, m2) ==
    (a1 * (m1 - m2) + 2 * m2 * a2) - (m1 + m2) * a1

\* empuje with a quarter of the overlap in place of a half.
empuje_cuarto(superposicion, r, distancia) == (superposicion * r) \div (4 * distancia)

\* One component of correccion * n = (superposicion * 0.5) * (r12 / distancia).
empuje(superposicion, r, distancia) == (superposicion * r) \div (2 * distancia)

\* Whether _resolver_colision(p1, p2) stays on the integers of the model:
\* the velocity change (v_n_nueva - v_n) * n = cambio * r12 / (masa_total * d^2)
\* and the push correccion * n = (R - d) * r12 / (2 * d).
resolver_exacto(p1, p2) ==
    LET r12 == <<p2.posicion[1] - p1.posicion[1], p2.posicion[2] - p1.posicion[2]>>
        d2 == Dot(r12, r12)
        a1 == Dot(p1.velocidad, r12)
        a2 == Dot(p2.velocidad, r12)
        m1 == p1.masa
        m2 == p2.masa
        c1 == cambio_normal(a1, a2, m1, m2)
        c2 == cambio_normal(a2, a1, m2, m1)
        R == p1.radio + p2.radio
    IN IF d2 = 0 THEN TRUE
       ELSE /\ \A k \in 1..2 : /\ (c1 * r12[k]) % ((m1 + m2) * d2) = 0
                               /\ (c2 * r12[k]) % ((m1 + m2) * d2) = 0
            /\ IF d2 >= R * R THEN TRUE
               ELSE IF ~EsCuadrado(d2) THEN FALSE
               ELSE \A k \in 1..2 : ((R - Raiz(d2)) * r12[k]) % (2 * Raiz(d2)) = 0

\* _resolver_colision exchanging the two velocities whatever the distance.
resolver_colision_intercambio(p1, p2) ==
    <<[p1 EXCEPT !.velocidad = p2.velocidad], [p2 EXCEPT !.velocidad = p1.velocidad]>>

\* _resolver_colision with an approach test: a pair that is not closing in
\* along the normal ((v2 - v1) . r12 >= 0) is returned as it came.
resolver_colision_si_acerca(p1, p2) ==
    LET r12 == <<p2.posicion[1] - p1.posicion[1], p2.posicion[2] - p1.posicion[2]>>
        d2 == Dot(r12, r12)
        a1 == Dot(p1.velocidad, r12)
        a2 == Dot(p2.velocidad, r12)
    IN IF d2 = 0 \/ a2 - a1 >= 0 THEN <<p1, p2>>
       ELSE
       LET m1 == p1.masa
           m2 == p2.masa
           masa_total == m1 + m2
           c1 == cambio_normal(a1, a2, m1, m2)
           c2 == cambio_normal(a2, a1, m2, m1)
           v1 == <<p1.velocidad[1] + (c1 * r12[1]) \div (masa_total * d2),
                   p1.velocidad[2] + (c1 * r12[2]) \div (masa_total * d2)>>
           v2 == <<p2.velocidad[1] + (c2 * r12[1]) \div (masa_total * d2),
                   p2.velocidad[2] + (c2 * r12[2]) \div (masa_total * d2)>>
           R == p1.radio + p2.radio
       IN IF d2 < R * R
          THEN LET distancia == Raiz(d2)
                   superposicion == R - distancia
                   cx == empuje(superposicion, r12[1], distancia)
                   cy == empuje(superposicion, r12[2], distancia)
               IN <<[p1 EXCEPT !.velocidad = v1,
                               !.posicion = <<p1.posicion[1] - cx, p1.posicion[2] - cy>>],
                    [p2 EXCEPT !.velocidad = v2,
                               !.posicion = <<p2.posicion[1] + cx, p2.posicion[2] + cy>>]>>
          ELSE <<[p1 EXCEPT !.velocidad = v1], [p2 EXCEPT !.velocidad = v2]>>

\* Simulacion._resolver_colision: the pair <<p1, p2>> after the call.
resolver_colision(p1, p2) ==
    LET r12 == <<p2.posicion[1] - p1.posicion[1], p2.posicion[2] - p1.posicion[2]>>
        d2 == Dot(r12, r12)
    IN IF d2 = 0 THEN <<p1, p2>>
       ELSE
       LET a1 == Dot(p1.velocidad, r12)
           a2 == Dot(p2.velocidad, r12)
           m1 == p1.masa
           m2 == p2.masa
           masa_total == m1 + m2
           c1 == cambio_normal(a1, a2, m1, m2)
           c2 == cambio_normal(a2, a1, m2, m1)
           v1 == <<p1.velocidad[1] + (c1 * r12[1]) \div (masa_total * d2),
                   p1.velocidad[2] + (c1 * r12[2]) \div (masa_total * d2)>>
           v2 == <<p2.velocidad[1] + (c2 * r12[1]) \div (masa_total * d2),
                   p2.velocidad[2] + (c2 * r12[2]) \div (masa_total * d2)>>
           R == p1.radio + p2.radio
       IN IF d2 < R * R
          THEN LET distancia == Raiz(d2)
                   superposicion == R - distancia
                   cx == empuje(superposicion, r12[1], distancia)
                   cy == empuje(superposicion, r12[2], distancia)
               IN <<[p1 EXCEPT !.velocidad = v1,
                               !.posicion = <<p1.posicion[1] - cx, p1.posicion[2] - cy>>],
                    [p2 EXCEPT !.velocidad = v2,
                               !.posicion = <<p2.posicion[1] + cx, p2.posicion[2] + cy>>]>>
          ELSE <<[p1 EXCEPT !.velocidad = v1], [p2 EXCEPT !.velocidad = v2]>>

\* The double loop of Simulacion.detectar_colisiones from pair (i, j) on, over
\* 1-based indices: the list after the sweep, whether every resolution was
\* exact, and the pairs whose resolution went past the distancia == 0 return.
RECURSIVE barrido(_, _, _)
barrido(ps, i, j) ==
    IF i > Len(ps) THEN [ps |-> ps, exacto |-> TRUE, resueltos |-> {}]
    ELSE IF j > Len(ps) THEN barrido(ps, i + 1, i + 2)
    ELSE IF ~colisiona_con(ps[i], ps[j]) THEN barrido(ps, i, j + 1)
    ELSE IF ~resolver_exacto(ps[i], ps[j])
         THEN [ps |-> ps, exacto |-> FALSE, resueltos |-> {}]
    ELSE LET par == resolver_colision(ps[i], ps[j])
             resto == barrido([ps EXCEPT ![i] = par[1], ![j] = par[2]], i, j + 1)
         IN IF distancia_cuad(ps[i], ps[j]) = 0 THEN resto
            ELSE [resto EXCEPT !.resueltos = @ \cup {<<i, j>>}]

\* Simulacion.detectar_colisiones
detectar_colisiones(ps) == barrido(ps, 1, 2).ps

detectar_exacto(ps) == barrido(ps, 1, 2).exacto

\* The pairs detectar_colisiones resolves on ps (coincident centres excepted).
pares_resueltos(ps) == barrido(ps, 1, 2).resueltos

\* Simulacion.aplicar_condiciones_frontera
aplicar_condiciones_frontera(ps, caja) ==
    [k \in 1..Len(ps) |-> colisionar_pared(ps[k], caja, caja)]

\* The loop of the module-level paso (and the first loop of Simulacion.paso):
\* mover, then colisionar_pared, particle by particle.
paso(ps, d, ancho, alto) ==
    [k \in 1..Len(ps) |-> colisionar_pared(mover(ps[k], d), ancho, alto)]

\* Simulacion.paso: the loop above, then detectar_colisiones.
paso_metodo(ps, d, ancho, alto) == detectar_colisiones(paso(ps, d, ancho, alto))

\* The mover loop of Simulacion.avanzar
mover_todas(ps, d) == [k \in 1..Len(ps) |-> mover(ps[k], d)]

\* What one pass of the loop of Simulacion.avanzar does to the particles.
avanzar_paso(ps, caja, d) ==
    mover_todas(detectar_colisiones(aplicar_condiciones_frontera(ps, caja)), d)

(***************************************************************************)
(* Simulacion: observables                                                 *)
(***************************************************************************)
RECURSIVE suma(_, _)
suma(f, n) == IF n = 0 THEN 0 ELSE f[n] + suma(f, n - 1)

\* Simulacion.energia_total and the module-level energia_total
energia_total(ps) ==
    suma([k \in 1..Len(ps) |-> energia_cinetica(ps[k])], Len(ps))

\* Simulacion.temperatura and the module-level temperatura, as a fraction
temperatura(ps) ==
    IF Len(ps) = 0 THEN <<0, 1>>
    ELSE <<suma([k \in 1..Len(ps) |->
                    ps[k].masa * Dot(ps[k].velocidad, ps[k].velocidad)], Len(ps)),
           2 * Len(ps) * k_B>>

\* Simulacion.calcular_presion, as a fraction
calcular_presion(ps, n, caja) ==
    LET area == caja * caja
        t == temperatura(ps)
    IN <<n * k_B * t[1], t[2] * area>>

\* Whether obtener_estadisticas stays on the integers of the model: every
\* speed np.linalg.norm(p.velocidad) is an integer.
estadisticas_exactas(ps) ==
    \A k \in 1..Len(ps) : EsCuadrado(Dot(ps[k].velocidad, ps[k].velocidad))

\* Simulacion.obtener_estadisticas.  velocidad_promedio is np.mean of the list
\* of speeds, the fraction <<sum, count>>: of an empty list it is 0 / 0, the
\* NaN that np.mean returns.
obtener_estadisticas(ps, n, caja, tiempo) ==
    [energia_total |-> energia_total(ps),
     temperatura |-> temperatura(ps),
     presion |-> calcular_presion(ps, n, caja),
     velocidad_promedio |->
        <<suma([k \in 1..Len(ps) |-> Raiz(Dot(ps[k].velocidad, ps[k].velocidad))],
               Len(ps)),
          Len(ps)>>,
     tiempo |-> tiempo]

(***************************************************************************)
(* Simulacion: population                                                  *)
(***************************************************************************)
\* np.random.uniform(low, high): low + (high - low) * u with 0 <= u < 1.
uniforme(low, high) ==
    IF low <= high
    THEN {x \in low..high : x < high \/ x = low}
    ELSE {x \in high..low : x > high}

\* The positions crear_gas can draw: both coordinates from
\* uniform(radio_particula, ancho - radio_particula).
sorteo_posicion(ancho) ==
    {q \in PosMuestras :
        /\ q[1] \in uniforme(radio_particula, ancho - radio_particula)
        /\ q[2] \in uniforme(radio_particula, ancho - radio_particula)}

\* The velocities crear_gas can draw: any direction, a magnitude clipped to
\* [0.1 * v_media, 3 * v_media].
sorteo_velocidad(v_media) ==
    {v \in VelMuestras :
        /\ 100 * Dot(v, v) >= v_media * v_media
        /\ Dot(v, v) <= 9 * v_media * v_media}

\* Simulacion._posicion_valida: only the entries of self.particulas at
\* (0-based) index below id_actual are looked at.
posicion_valida(ps, posicion, id_actual) ==
    \A k \in 1..Len(ps) :
        (k - 1 < id_actual) =>
            LET r == <<posicion[1] - ps[k].posicion[1], posicion[2] - ps[k].posicion[2]>>
            IN ~(Dot(r, r) < (2 * radio_particula) * (2 * radio_particula))

Ninguna == [op |-> "nada", N |-> 0, ancho |-> 0, alto |-> 0, dt |-> 0,
            v_media |-> 0, pasos |-> 0, k |-> 0, previas |-> 0]

\* Simulacion.__init__(tamaño_caja, n_particulas, dt)
Init ==
    /\ tamano_caja \in {c[1] : c \in Cajas}
    /\ n_particulas \in 0..MaxParticulas
    /\ dt \in Dts
    /\ particulas = <<>>
    /\ tiempo_actual = 0
    /\ historial_energia = <<>>
    /\ historial_temperatura = <<>>
    /\ historial_presion = <<>>
    /\ pc = "idle"
    /\ llamada = Ninguna
    /\ ultima = Ninguna
    /\ antes = <<>>
    /\ nops = 0

\* Simulacion.crear_gas(N, ancho, alto, v_media), lines 43-44 and the entry
\* of the loop; with N = 0 the call returns at once.
CrearGas ==
    /\ pc = "idle"
    /\ nops < MaxOps
    /\ \E N \in 0..MaxParticulas, caja \in Cajas, v_media \in VMedias :
        LET ancho == caja[1]
            alto == caja[2]
        IN
        /\ Len(particulas) + N <= MaxParticulas
        /\ n_particulas' = N
        /\ tamano_caja' = ancho
        /\ LET c == [Ninguna EXCEPT !.op = "crear_gas", !.N = N, !.ancho = ancho,
                                    !.alto = alto, !.v_media = v_media,
                                    !.previas = Len(particulas)]
           IN IF N = 0
              THEN pc' = "idle" /\ llamada' = Ninguna /\ ultima' = c
              ELSE pc' = "crear" /\ llamada' = c /\ ultima' = ultima
    /\ nops' = nops + 1
    /\ antes' = particulas
    /\ UNCHANGED <<particulas, dt, tiempo_actual, historial_energia,
                   historial_temperatura, historial_presion>>

\* One pass of the while loop of crear_gas for particle i = llamada.k: a
\* position is drawn; a rejected one is drawn again, an accepted one gets a
\* velocity and the particle is appended.  The call returns after particle N-1.
CrearGasColocar ==
    /\ pc = "crear"
    /\ \E posicion \in sorteo_posicion(llamada.ancho) :
        IF posicion_valida(particulas, posicion, llamada.k)
        THEN \E velocidad \in sorteo_velocidad(llamada.v_media) :
            /\ particulas' = Append(particulas,
                    Particula(llamada.k, masa_particula, radio_particula,
                              posicion, velocidad))
            /\ IF llamada.k + 1 = llamada.N
               THEN pc' = "idle" /\ llamada' = Ninguna /\ ultima' = llamada
               ELSE pc' = "crear" /\ llamada' = [llamada EXCEPT !.k = @ + 1]
                    /\ ultima' = ultima
        ELSE UNCHANGED <<particulas, pc, llamada, ultima>>
    /\ UNCHANGED <<sim_vars, antes, nops>>

(***************************************************************************)
(* Simulacion: stepping                                                    *)
(***************************************************************************)
\* Simulacion.avanzar(pasos): entry of the loop.
Avanzar ==
    /\ pc = "idle"
    /\ nops < MaxOps
    /\ \E pasos \in 1..MaxPasos :
        llamada' = [Ninguna EXCEPT !.op = "avanzar", !.pasos = pasos]
    /\ pc' = "frontera"
    /\ nops' = nops + 1
    /\ UNCHANGED <<particulas, sim_vars, ultima, antes>>

\* avanzar, line 209: a pass of the loop starts.
AvanzarFrontera ==
    /\ pc = "frontera"
    /\ antes' = particulas
    /\ particulas' = aplicar_condiciones_frontera(particulas, tamano_caja)
    /\ pc' = "colisiones"
    /\ UNCHANGED <<sim_vars, llamada, ultima, nops>>

\* avanzar, line 212
AvanzarColisiones ==
    /\ pc = "colisiones"
    /\ detectar_exacto(particulas)
    /\ particulas' = detectar_colisiones(particulas)
    /\ pc' = "mover"
    /\ UNCHANGED <<sim_vars, llamada, ultima, antes, nops>>

\* AvanzarMover going straight on to the history entries.
AvanzarMover_sin_tiempo ==
    /\ pc = "mover"
    /\ particulas' = mover_todas(particulas, dt)
    /\ pc' = "historial"
    /\ UNCHANGED <<sim_vars, llamada, ultima, antes, nops>>

\* avanzar, lines 215-216
AvanzarMover ==
    /\ pc = "mover"
    /\ particulas' = mover_todas(particulas, dt)
    /\ pc' = "tiempo"
    /\ UNCHANGED <<sim_vars, llamada, ultima, antes, nops>>

\* avanzar, line 219
AvanzarTiempo ==
    /\ pc = "tiempo"
    /\ tiempo_actual' = tiempo_actual + dt
    /\ pc' = "historial"
    /\ UNCHANGED <<particulas, tamano_caja, n_particulas, dt, historial_energia,
                   historial_temperatura, historial_presion, llamada, ultima, antes, nops>>

\* avanzar, lines 222-224, and the end of one pass of the loop.
AvanzarHistorial ==
    /\ pc = "historial"
    /\ historial_energia' = Append(historial_energia, energia_total(particulas))
    /\ historial_temperatura' = Append(historial_temperatura, temperatura(particulas))
    /\ historial_presion' = Append(historial_presion,
            calcular_presion(particulas, n_particulas, tamano_caja))
    /\ IF llamada.k + 1 = llamada.pasos
       THEN pc' = "idle" /\ llamada' = Ninguna
            /\ ultima' = [llamada EXCEPT !.k = @ + 1]
       ELSE pc' = "frontera" /\ llamada' = [llamada EXCEPT !.k = @ + 1]
            /\ ultima' = ultima
    /\ UNCHANGED <<particulas, tamano_caja, n_particulas, dt, tiempo_actual, antes, nops>>

\* The module-level paso(particulas, dt, ancho, alto) on the ensemble's list.
PasoLibre ==
    /\ pc = "idle"
    /\ nops < MaxOps
    /\ \E d \in Dts, caja \in Cajas :
        LET ancho == caja[1]
            alto == caja[2]
        IN
        /\ particulas' = paso(particulas, d, ancho, alto)
        /\ ultima' = [Ninguna EXCEPT !.op = "paso", !.dt = d, !.ancho = ancho,
                                     !.alto = alto]
    /\ nops' = nops + 1
    /\ antes' = particulas
    /\ UNCHANGED <<sim_vars, pc, llamada>>

\* Simulacion.paso(self.particulas, dt, ancho, alto)
PasoMetodo ==
    /\ pc = "idle"
    /\ nops < MaxOps
    /\ \E d \in Dts, caja \in Cajas :
        LET ancho == caja[1]
            alto == caja[2]
        IN
        /\ detectar_exacto(paso(particulas, d, ancho, alto))
        /\ particulas' = paso_metodo(particulas, d, ancho, alto)
        /\ ultima' = [Ninguna EXCEPT !.op = "paso_metodo", !.dt = d, !.ancho = ancho,
                                     !.alto = alto]
    /\ nops' = nops + 1
    /\ antes' = particulas
    /\ UNCHANGED <<sim_vars, pc, llamada>>

Next ==
    \/ CrearGas
    \/ CrearGasColocar
    \/ Avanzar
    \/ AvanzarFrontera
    \/ AvanzarColisiones
    \/ AvanzarMover
    \/ AvanzarTiempo
    \/ AvanzarHistorial
    \/ PasoLibre
    \/ PasoMetodo

Spec == Init /\ [][Next]_vars

(***************************************************************************)
(* _resolver_colision on its own: two particles built with explicit masses,*)
(* radii, positions and velocities, and the resolution called on them.     *)
(***************************************************************************)
MaxResoluciones == 2   \* consecutive calls of _resolver_colision on the pair

ParMasas == {2, 6}
ParRadios == {5, 10}
\* posicion of the second particle relative to the first
ParSeparaciones == {<<0, 0>>, <<6, 0>>, <<0, -8>>, <<10, 0>>, <<6, 8>>, <<-8, 6>>,
                    <<-12, -16>>, <<30, 0>>}
ParVelocidades == {<<0, 0>>, <<2, 0>>, <<6, 8>>, <<-6, -8>>, <<4, -3>>}

InitPar ==
    /\ \E m1 \in ParMasas, m2 \in ParMasas, r1 \in ParRadios, r2 \in ParRadios,
          sep \in ParSeparaciones, v1 \in ParVelocidades, v2 \in ParVelocidades :
        particulas = <<Particula(0, m1, r1, <<20, 20>>, v1),
                       Particula(1, m2, r2, <<20 + sep[1], 20 + sep[2]>>, v2)>>
    /\ antes = particulas
    /\ tamano_caja = 40
    /\ n_particulas = 2
    /\ dt = 1
    /\ tiempo_actual = 0
    /\ historial_energia = <<>>
    /\ historial_temperatura = <<>>
    /\ historial_presion = <<>>
    /\ pc = "par"
    /\ llamada = Ninguna
    /\ ultima = Ninguna
    /\ nops = 0

\* self._resolver_colision(p1, p2)
ResolverPar ==
    /\ pc = "par"
    /\ nops < MaxResoluciones
    /\ resolver_exacto(particulas[1], particulas[2])
    /\ antes' = particulas
    /\ particulas' = resolver_colision(particulas[1], particulas[2])
    /\ ultima' = [Ninguna EXCEPT !.op = "resolver"]
    /\ nops' = nops + 1
    /\ UNCHANGED <<sim_vars, pc, llamada>>

NextPar == ResolverPar

SpecPar == InitPar /\ [][NextPar]_vars

(***************************************************************************)
(* The wall operations on their own: one particle built anywhere, inside   *)
(* or outside the box, and colisionar_pared (any box) or                   *)
(* aplicar_condiciones_frontera (the box of the Simulacion) called on it.  *)
(***************************************************************************)
MaxReflexiones == 2   \* consecutive wall calls on the particle

ParedCajas == {<<30, 30>>, <<30, 12>>, <<10, 10>>, <<8, 8>>}
ParedCoordenadas == {-3, 0, 3, 5, 7, 12, 25, 33}
ParedVelocidades == {-2, 0, 3}

InitPared ==
    /\ \E r \in ParRadios, x \in ParedCoordenadas, y \in ParedCoordenadas,
          vx \in ParedVelocidades, vy \in ParedVelocidades :
        particulas = <<Particula(0, masa_particula, r, <<x, y>>, <<vx, vy>>)>>
    /\ antes = particulas
    /\ tamano_caja \in {c[1] : c \in ParedCajas}
    /\ n_particulas = 1
    /\ dt = 1
    /\ tiempo_actual = 0
    /\ historial_energia = <<>>
    /\ historial_temperatura = <<>>
    /\ historial_presion = <<>>
    /\ pc = "pared"
    /\ llamada = Ninguna
    /\ ultima = Ninguna
    /\ nops = 0

\* particula.colisionar_pared(ancho, alto)
ColisionarPared ==
    /\ pc = "pared"
    /\ nops < MaxReflexiones
    /\ \E caja \in ParedCajas :
        /\ particulas' = <<colisionar_pared(particulas[1], caja[1], caja[2])>>
        /\ ultima' = [Ninguna EXCEPT !.op = "colisionar_pared", !.ancho = caja[1],
                                     !.alto = caja[2]]
    /\ antes' = particulas
    /\ nops' = nops + 1
    /\ UNCHANGED <<sim_vars, pc, llamada>>

\* self.aplicar_condiciones_frontera(); ultima.k counts the calls in a row.
AplicarFrontera ==
    /\ pc = "pared"
    /\ nops < MaxReflexiones
    /\ particulas' = aplicar_condiciones_frontera(particulas, tamano_caja)
    /\ ultima' = [Ninguna EXCEPT !.op = "frontera", !.ancho = tamano_caja,
                                 !.alto = tamano_caja,
                                 !.k = IF ultima.op = "frontera" THEN ultima.k + 1 ELSE 1]
    /\ antes' = particulas
    /\ nops' = nops + 1
    /\ UNCHANGED <<sim_vars, pc, llamada>>

NextPared ==
    \/ ColisionarPared
    \/ AplicarFrontera

SpecPared == InitPared /\ [][NextPared]_vars

(***************************************************************************)
(* detectar_colisiones on its own: three particles built at explicit       *)
(* positions, coincident ones included, and the sweep called on them.      *)
(***************************************************************************)
MaxBarridos == 2   \* consecutive calls of detectar_colisiones

BarridoPosiciones == {<<20, 20>>, <<26, 20>>, <<20, 12>>}
BarridoVelocidades == {<<2, 0>>, <<-2, 0>>, <<0, 3>>}

InitBarrido ==
    /\ \E q \in [1..3 -> BarridoPosiciones], v \in [1..3 -> BarridoVelocidades] :
        particulas = [k \in 1..3 |->
            Particula(k - 1, masa_particula, radio_particula, q[k], v[k])]
    /\ antes = particulas
    /\ tamano_caja = 40
    /\ n_particulas = 3
    /\ dt = 1
    /\ tiempo_actual = 0
    /\ historial_energia = <<>>
    /\ historial_temperatura = <<>>
    /\ historial_presion = <<>>
    /\ pc = "barrido"
    /\ llamada = Ninguna
    /\ ultima = Ninguna
    /\ nops = 0

\* self.detectar_colisiones()
Barrer ==
    /\ pc = "barrido"
    /\ nops < MaxBarridos
    /\ detectar_exacto(particulas)
    /\ antes' = particulas
    /\ particulas' = detectar_colisiones(particulas)
    /\ ultima' = [Ninguna EXCEPT !.op = "detectar_colisiones"]
    /\ nops' = nops + 1
    /\ UNCHANGED <<sim_vars, pc, llamada>>

NextBarrido == Barrer

SpecBarrido == InitBarrido /\ [][NextBarrido]_vars

(***************************************************************************)
(* Construction on its own: Simulacion(tamaño_caja, n_particulas, dt) and  *)
(* the module-level crear_gas, which constructs a Simulacion and populates *)
(* it, called with arguments of either sign.                               *)
(***************************************************************************)
ConstructorCajas == {-8, 0, 8, 30}
ConstructorCuentas == -1..MaxParticulas
ConstructorDts == {-1, 0, 1}

\* No Simulacion exists yet.
InitConstructor ==
    /\ pc = "nuevo"
    /\ particulas = <<>>
    /\ tamano_caja = 0
    /\ n_particulas = 0
    /\ dt = 0
    /\ tiempo_actual = 0
    /\ historial_energia = <<>>
    /\ historial_temperatura = <<>>
    /\ historial_presion = <<>>
    /\ llamada = Ninguna
    /\ ultima = Ninguna
    /\ antes = <<>>
    /\ nops = 0

\* Simulacion(tamaño_caja, n_particulas, dt): the arguments are stored as they
\* come; nothing is tested and nothing is raised.
Construir ==
    /\ pc = "nuevo"
    /\ \E caja \in ConstructorCajas, n \in ConstructorCuentas, d \in ConstructorDts :
        /\ tamano_caja' = caja
        /\ n_particulas' = n
        /\ dt' = d
        /\ ultima' = [Ninguna EXCEPT !.op = "Simulacion", !.N = n, !.ancho = caja,
                                     !.alto = caja, !.dt = d]
    /\ particulas' = <<>>
    /\ tiempo_actual' = 0
    /\ historial_energia' = <<>>
    /\ historial_temperatura' = <<>>
    /\ historial_presion' = <<>>
    /\ pc' = "idle"
    /\ nops' = nops + 1
    /\ UNCHANGED <<llamada, antes>>

\* The module-level crear_gas(N, ancho, alto, v_media): Simulacion(ancho, N)
\* with the default dt, then sim.crear_gas(N, ancho, alto, v_media) up to the
\* entry of its loop; range(N) is empty for N <= 0.
CrearGasModulo ==
    /\ pc = "nuevo"
    /\ \E N \in ConstructorCuentas, ancho \in ConstructorCajas, alto \in ConstructorCajas,
          v_media \in VMedias :
        /\ tamano_caja' = ancho
        /\ n_particulas' = N
        /\ LET c == [Ninguna EXCEPT !.op = "crear_gas", !.N = N, !.ancho = ancho,
                                    !.alto = alto, !.v_media = v_media]
           IN IF N <= 0
              THEN pc' = "idle" /\ llamada' = Ninguna /\ ultima' = c
              ELSE pc' = "crear" /\ llamada' = c /\ ultima' = ultima
    /\ dt' = 1
    /\ particulas' = <<>>
    /\ tiempo_actual' = 0
    /\ historial_energia' = <<>>
    /\ historial_temperatura' = <<>>
    /\ historial_presion' = <<>>
    /\ nops' = nops + 1
    /\ UNCHANGED antes

NextConstructor ==
    \/ Construir
    \/ CrearGasModulo
    \/ CrearGasColocar

SpecConstructor == InitConstructor /\ [][NextConstructor]_vars

(***************************************************************************)
(* Properties                                                              *)
(***************************************************************************)
\* Every particle of ps lies in [radio, ancho - radio] x [radio, alto - radio].
Contenidas(ps, ancho, alto) ==
    \A k \in 1..Len(ps) :
        /\ ps[k].radio <= ps[k].posicion[1]
        /\ ps[k].posicion[1] <= ancho - ps[k].radio
        /\ ps[k].radio <= ps[k].posicion[2]
        /\ ps[k].posicion[2] <= alto - ps[k].radio

\* A pass of the loop of avanzar has just completed (its history entries are
\* appended and nothing of the next pass has run): antes is the ensemble that
\* pass started from.
PasoCompleto ==
    \/ pc = "frontera" /\ llamada.k > 0
    \/ pc = "idle" /\ ultima.op = "avanzar"

\* C1: an ensemble inside the box at the start of a step of avanzar is inside
\* the box, on both axes, when the step has completed.
C1_ContencionAvanzar ==
    (PasoCompleto /\ Contenidas(antes, tamano_caja, tamano_caja))
        => Contenidas(particulas, tamano_caja, tamano_caja)

\* C2: after a call of the module-level paso with a box at least 2 * radio wide
\* and high, every particle lies in [radio, ancho - radio] x [radio, alto - radio].
C2_ContencionPaso ==
    (/\ pc = "idle"
     /\ ultima.op = "paso"
     /\ \A k \in 1..Len(particulas) :
            /\ ultima.ancho >= 2 * particulas[k].radio
            /\ ultima.alto >= 2 * particulas[k].radio)
        => Contenidas(particulas, ultima.ancho, ultima.alto)

\* C2, witness: paso has returned for such a box and has brought back a particle
\* that its mover had carried outside it.
C2_Testigo ==
    /\ pc = "idle"
    /\ ultima.op = "paso"
    /\ ultima.ancho >= 2 * radio_particula
    /\ ultima.alto >= 2 * radio_particula
    /\ \E k \in 1..Len(particulas) :
        ~Contenidas(<<mover(antes[k], ultima.dt)>>, ultima.ancho, ultima.alto)

\* C3: a step (a pass of avanzar, a call of either paso) leaves the total
\* kinetic energy of the ensemble as it found it.
C3_EnergiaConservada ==
    (PasoCompleto \/ (pc = "idle" /\ ultima.op \in {"paso", "paso_metodo"}))
        => energia_total(particulas) = energia_total(antes)

\* C3, witness: a completed step of avanzar in which a wall turned a particle
\* and a pair resolution changed a velocity.
C3_Testigo ==
    /\ PasoCompleto
    /\ LET enPared == aplicar_condiciones_frontera(antes, tamano_caja)
       IN /\ \E k \in 1..Len(antes) : enPared[k].velocidad # antes[k].velocidad
          /\ pares_resueltos(enPared) # {}
          /\ \E k \in 1..Len(antes) : particulas[k].velocidad # enPared[k].velocidad

\* The separation vector r12 of a pair <<p1, p2>>.
Separacion(ps) ==
    <<ps[2].posicion[1] - ps[1].posicion[1], ps[2].posicion[2] - ps[1].posicion[2]>>

\* The component of v across r (v . t * |r|, with t the unit tangent).
Tangencial(v, r) == v[1] * (-r[2]) + v[2] * r[1]

\* C4: _resolver_colision on a pair at distance d > 0 leaves the pair's total
\* momentum and total kinetic energy, and each particle's velocity component
\* tangential to the contact normal, as they were before the call.
C4_ResolucionElastica ==
    (ultima.op = "resolver" /\ distancia_cuad(antes[1], antes[2]) > 0)
        => LET r12 == Separacion(antes)
           IN /\ \A c \in 1..2 :
                    momento_lineal(particulas[1])[c] + momento_lineal(particulas[2])[c]
                    = momento_lineal(antes[1])[c] + momento_lineal(antes[2])[c]
              /\ energia_total(particulas) = energia_total(antes)
              /\ \A k \in 1..2 :
                    Tangencial(particulas[k].velocidad, r12)
                    = Tangencial(antes[k].velocidad, r12)

\* C4, witness: a resolution of a pair of unequal masses along an oblique
\* normal that changed both velocities, one of them with a tangential part.
C4_Testigo ==
    /\ ultima.op = "resolver"
    /\ antes[1].masa # antes[2].masa
    /\ Separacion(antes)[1] # 0
    /\ Separacion(antes)[2] # 0
    /\ particulas[1].velocidad # antes[1].velocidad
    /\ particulas[2].velocidad # antes[2].velocidad
    /\ Tangencial(antes[1].velocidad, Separacion(antes)) # 0
    /\ colisiona_con(antes[1], antes[2])

\* The sum of the radii of a pair, squared.
ContactoCuad(p, q) == (p.radio + q.radio) * (p.radio + q.radio)

\* A sweep of detectar_colisiones has just returned (inside avanzar, or at the
\* end of Simulacion.paso); PreBarrido is the list it started from.
TrasBarrido ==
    \/ pc = "mover"
    \/ pc = "idle" /\ ultima.op = "paso_metodo"

PreBarrido ==
    IF pc = "mover"
    THEN aplicar_condiciones_frontera(antes, tamano_caja)
    ELSE paso(antes, ultima.dt, ultima.ancho, ultima.alto)

\* Pair b comes after pair a in the order of the sweep.
Posterior(a, b) == b[1] > a[1] \/ (b[1] = a[1] /\ b[2] > a[2])

\* C5 (first half): _resolver_colision on a pair with 0 < d <= radio1 + radio2
\* leaves its centres at least radio1 + radio2 apart.  Checked on every pair of
\* every ensemble a sweep starts from.
C5_ParSeparado ==
    pc = "colisiones" =>
        \A i \in 1..Len(particulas), j \in 1..Len(particulas) :
            (/\ i < j
             /\ distancia_cuad(particulas[i], particulas[j]) > 0
             /\ colisiona_con(particulas[i], particulas[j])
             /\ resolver_exacto(particulas[i], particulas[j]))
            => LET par == resolver_colision(particulas[i], particulas[j])
               IN distancia_cuad(par[1], par[2])
                    >= ContactoCuad(particulas[i], particulas[j])

\* C5: a resolved pair is left at least the sum of its radii apart, and after
\* a full sweep no pair that the sweep resolved is left closer than the sum of
\* its radii.
C5_SinInterpenetracion ==
    /\ C5_ParSeparado
    /\ TrasBarrido =>
        \A a \in pares_resueltos(PreBarrido) :
            distancia_cuad(particulas[a[1]], particulas[a[2]])
                >= ContactoCuad(particulas[a[1]], particulas[a[2]])

\* C5, for the pairs a sweep resolves last: a resolved pair is left at least the
\* sum of its radii apart, and after a full sweep no resolved pair is left
\* closer than the sum of its radii unless one of its two particles took part
\* in a later resolution of the same sweep.
C5_SinInterpenetracionUltima ==
    /\ C5_ParSeparado
    /\ TrasBarrido =>
        \A a \in pares_resueltos(PreBarrido) :
            (\A b \in pares_resueltos(PreBarrido) :
                Posterior(a, b) => {a[1], a[2]} \cap {b[1], b[2]} = {})
            => distancia_cuad(particulas[a[1]], particulas[a[2]])
                >= ContactoCuad(particulas[a[1]], particulas[a[2]])

\* C5, witness: a sweep has resolved a pair that overlapped, after an earlier
\* resolution that involved one of its particles, and has left it at the sum
\* of its radii.
C5_Testigo ==
    /\ TrasBarrido
    /\ \E a \in pares_resueltos(PreBarrido), b \in pares_resueltos(PreBarrido) :
        /\ Posterior(b, a)
        /\ {a[1], a[2]} \cap {b[1], b[2]} # {}
        /\ distancia_cuad(PreBarrido[a[1]], PreBarrido[a[2]])
            < ContactoCuad(particulas[a[1]], particulas[a[2]])
        /\ distancia_cuad(particulas[a[1]], particulas[a[2]])
            = ContactoCuad(particulas[a[1]], particulas[a[2]])

\* C6: one step through avanzar(1) and one step through paso (the module-level
\* function, and the Simulacion.paso method) from the same ensemble, with the
\* same dt and box, give the same positions and velocities.
C6_PasosEquivalentes ==
    (pc = "idle" /\ ultima.op = "avanzar" /\ ultima.pasos = 1)
        => LET libre == paso(antes, dt, tamano_caja, tamano_caja)
           IN /\ particulas = libre
              /\ detectar_exacto(libre)
                    => particulas = paso_metodo(antes, dt, tamano_caja, tamano_caja)

\* What one step of a pass of avanzar may do, by the phase it starts in.
C7_Fases ==
    /\ pc = "frontera" =>
        /\ pc' = "colisiones"
        /\ particulas' = aplicar_condiciones_frontera(particulas, tamano_caja)
        /\ UNCHANGED <<tiempo_actual, historial_energia, historial_temperatura,
                       historial_presion>>
    /\ pc = "colisiones" =>
        /\ pc' = "mover"
        /\ particulas' = detectar_colisiones(particulas)
        /\ UNCHANGED <<tiempo_actual, historial_energia, historial_temperatura,
                       historial_presion>>
    /\ pc = "mover" =>
        /\ pc' = "tiempo"
        /\ particulas' = mover_todas(particulas, dt)
        /\ UNCHANGED <<tiempo_actual, historial_energia, historial_temperatura,
                       historial_presion>>
    /\ pc = "tiempo" =>
        /\ pc' = "historial"
        /\ tiempo_actual' = tiempo_actual + dt
        /\ UNCHANGED <<particulas, historial_energia, historial_temperatura,
                       historial_presion>>
    /\ pc = "historial" =>
        /\ pc' \in {"frontera", "idle"}
        /\ particulas = avanzar_paso(antes, tamano_caja, dt)
        /\ historial_energia' = Append(historial_energia, energia_total(particulas))
        /\ historial_temperatura' =
                Append(historial_temperatura, temperatura(particulas))
        /\ historial_presion' =
                Append(historial_presion,
                       calcular_presion(particulas, n_particulas, tamano_caja))
        /\ UNCHANGED <<particulas, tiempo_actual>>
    /\ pc' = "frontera" => pc \in {"idle", "historial"}

\* C7: a pass of avanzar runs wall reflection, the collision sweep, the advance
\* by dt, the increment of tiempo_actual and the history entries in this
\* order, each to completion; the entries are the observables of the advanced
\* state; a pass starts only at the entry of the call or from the history
\* entries of the pass before.
C7_OrdenDeFases == [][C7_Fases]_vars

\* C7, witness: the second pass of a call of avanzar is about to start, after a
\* pass in which a wall or a pair changed a velocity.
C7_Testigo ==
    /\ pc = "frontera"
    /\ llamada.k = 1
    /\ Len(historial_energia) > 0
    /\ \E k \in 1..Len(particulas) : particulas[k].velocidad # antes[k].velocidad

\* C8: when crear_gas(N, ...) returns the ensemble holds exactly N particles.
C8_CuentaDeParticulas ==
    (pc = "idle" /\ ultima.op = "crear_gas") => Len(particulas) = ultima.N

\* C9: when crear_gas(N, ancho, alto, v_media) returns on an empty Simulacion,
\* every particle lies in [radio, ancho - radio] x [radio, alto - radio].
C9_CreadasEnLaCaja ==
    (pc = "idle" /\ ultima.op = "crear_gas" /\ ultima.previas = 0)
        => Contenidas(particulas, ultima.ancho, ultima.alto)

\* C10: when crear_gas returns, every two distinct particles of the ensemble
\* are at least the sum of their radii apart.
C10_SinSolape ==
    (pc = "idle" /\ ultima.op = "crear_gas")
        => \A i \in 1..Len(particulas), j \in 1..Len(particulas) :
            i < j => distancia_cuad(particulas[i], particulas[j])
                        >= ContactoCuad(particulas[i], particulas[j])

\* The box <<tamano[1], tamano[2]>> is wider and higher than the diameter 2 * r.
CajaHolgada(tamano, r) == tamano[1] > 2 * r /\ tamano[2] > 2 * r

\* Particle p is at or beyond a wall of axis c and moving towards that wall.
HaciaPared(p, tamano, c) ==
    \/ p.posicion[c] - p.radio <= 0 /\ p.velocidad[c] < 0
    \/ p.posicion[c] + p.radio >= tamano[c] /\ p.velocidad[c] > 0

\* colisionar_pared took p to q elastically in the box tamano.
ReflexionElastica(p, q, tamano) ==
    /\ \A c \in 1..2 :
        /\ Abs(q.velocidad[c]) = Abs(p.velocidad[c])
        /\ (q.velocidad[c] # p.velocidad[c]) <=> HaciaPared(p, tamano, c)
    /\ energia_cinetica(q) = energia_cinetica(p)

\* C11: colisionar_pared, for every particle state and every box, leaves |vx|,
\* |vy| and the kinetic energy unchanged, and changes the sign of a velocity
\* component exactly when the particle is at or beyond a wall of that axis and
\* moving towards it.
C11_ParedElastica ==
    ultima.op = "colisionar_pared"
        => ReflexionElastica(antes[1], particulas[1], <<ultima.ancho, ultima.alto>>)

\* C11, for boxes wider and higher than the particle's diameter: the same
\* statement, for every particle state and every box with ancho > 2 * radio
\* and alto > 2 * radio.
C11_ParedElasticaCajaHolgada ==
    (ultima.op = "colisionar_pared"
     /\ CajaHolgada(<<ultima.ancho, ultima.alto>>, antes[1].radio))
        => ReflexionElastica(antes[1], particulas[1], <<ultima.ancho, ultima.alto>>)

\* C11, witness: in such a box, a particle beyond the right wall and moving
\* towards it, and at the lower wall and moving away from it: colisionar_pared
\* has turned vx and kept vy.
C11_Testigo ==
    /\ ultima.op = "colisionar_pared"
    /\ CajaHolgada(<<ultima.ancho, ultima.alto>>, antes[1].radio)
    /\ antes[1].posicion[1] + antes[1].radio > ultima.ancho
    /\ antes[1].velocidad[1] > 0
    /\ particulas[1].velocidad[1] = -antes[1].velocidad[1]
    /\ antes[1].posicion[2] - antes[1].radio <= 0
    /\ antes[1].velocidad[2] > 0
    /\ particulas[1].velocidad[2] = antes[1].velocidad[2]

\* Particle k of the ensemble a pass of avanzar started from meets nothing in
\* that pass: no test of colisionar_pared fires on it and the sweep resolves no
\* pair it belongs to.
SinContacto(k) ==
    /\ \A c \in 1..2 :
        /\ antes[k].posicion[c] - antes[k].radio > 0
        /\ antes[k].posicion[c] + antes[k].radio < tamano_caja
    /\ \A a \in pares_resueltos(aplicar_condiciones_frontera(antes, tamano_caja)) :
        k \notin {a[1], a[2]}

\* C12: mover(dt) changes the position by exactly velocidad * dt and leaves
\* velocity, mass, radius and id as they were; and over one pass of avanzar a
\* particle that no wall reflection and no pair resolution touched is displaced
\* by exactly its pre-step velocity times dt.
C12_VueloLibre ==
    /\ pc = "tiempo" =>
        LET pre == detectar_colisiones(aplicar_condiciones_frontera(antes, tamano_caja))
        IN /\ Len(particulas) = Len(pre)
           /\ \A k \in 1..Len(pre) :
                particulas[k] =
                    [pre[k] EXCEPT !.posicion =
                        <<pre[k].posicion[1] + pre[k].velocidad[1] * dt,
                          pre[k].posicion[2] + pre[k].velocidad[2] * dt>>]
    /\ PasoCompleto =>
        \A k \in 1..Len(antes) :
            SinContacto(k) =>
                /\ particulas[k].velocidad = antes[k].velocidad
                /\ \A c \in 1..2 :
                    particulas[k].posicion[c] - antes[k].posicion[c]
                        = antes[k].velocidad[c] * dt

\* C12, witness: a completed pass of avanzar with a particle in oblique free
\* flight and another one on which a wall test or a pair resolution acted.
C12_Testigo ==
    /\ PasoCompleto
    /\ \E k \in 1..Len(antes), j \in 1..Len(antes) :
        /\ SinContacto(k)
        /\ antes[k].velocidad[1] # 0
        /\ antes[k].velocidad[2] # 0
        /\ ~SinContacto(j)

\* A step of the machine that completes a step of the simulation: the history
\* entries of a pass of avanzar, or a call of Simulacion.paso.
CompletaPaso ==
    \/ pc = "historial"
    \/ pc = "idle" /\ pc' = "idle" /\ nops' = nops + 1 /\ ultima'.op = "paso_metodo"

\* Sequence h is a prefix of sequence g.
Prefijo(h, g) == Len(h) <= Len(g) /\ SubSeq(g, 1, Len(h)) = h

\* Between steps of the simulation the three histories are equally long and
\* tiempo_actual is dt times their length.
AlDia ==
    /\ Len(historial_temperatura) = Len(historial_energia)
    /\ Len(historial_presion) = Len(historial_energia)
    /\ tiempo_actual = Len(historial_energia) * dt

\* C13: tiempo_actual is 0 and the histories are empty at construction; every
\* completed step (a pass of avanzar, a call of Simulacion.paso) adds one entry
\* to each history and dt to tiempo_actual, nothing else adds any, so that
\* after k completed steps tiempo_actual = k * dt and each history has k
\* entries; entries are never removed or rewritten.
C13_Contabilidad ==
    [][/\ nops = 0 => (AlDia /\ tiempo_actual = 0)
       /\ Len(historial_energia') =
            Len(historial_energia) + (IF CompletaPaso THEN 1 ELSE 0)
       /\ Prefijo(historial_energia, historial_energia')
       /\ Prefijo(historial_temperatura, historial_temperatura')
       /\ Prefijo(historial_presion, historial_presion')
       /\ pc' \in {"idle", "frontera"} => AlDia']_vars

\* A recorded quotient <<numerator, denominator>> is a number (not 0 / 0, not
\* a division by zero).
Definido(q) == q[2] # 0

\* C14: on a Simulacion with no particles temperatura() is 0, every field of
\* obtener_estadisticas() is a defined number, and the history entries that
\* avanzar records are defined numbers.
C14_ConjuntoVacio ==
    (pc = "idle" /\ Len(particulas) = 0) =>
        LET e == obtener_estadisticas(particulas, n_particulas, tamano_caja,
                                      tiempo_actual)
        IN /\ temperatura(particulas) = <<0, 1>>
           /\ Definido(e.temperatura)
           /\ Definido(e.presion)
           /\ Definido(e.velocidad_promedio)
           /\ \A k \in 1..Len(historial_temperatura) :
                Definido(historial_temperatura[k])
           /\ \A k \in 1..Len(historial_presion) : Definido(historial_presion[k])

\* C15: no Simulacion exists with tamano_caja <= 0, dt <= 0 or
\* n_particulas < 0: a construction with such arguments yields no object.
C15_ConstruccionValida ==
    pc # "nuevo" => (tamano_caja > 0 /\ dt > 0 /\ n_particulas >= 0)

\* C16: the rejection loop of crear_gas ends for every N and every box: while
\* a particle is being placed, either some position the loop can draw is
\* accepted or the call leaves the loop with a placement failure.  The loop has
\* no other exit than an accepted draw.
C16_ColocacionTermina ==
    pc = "crear" =>
        \E posicion \in sorteo_posicion(llamada.ancho) :
            posicion_valida(particulas, posicion, llamada.k)

\* The pairs <<i, j>>, i < j, of the list ps.
Pares(ps) == {a \in (1..Len(ps)) \X (1..Len(ps)) : a[1] < a[2]}

\* The pairs of ps whose centres coincide.
Coincidentes(ps) == {a \in Pares(ps) : distancia_cuad(ps[a[1]], ps[a[2]]) = 0}

\* The first pair, in the order of the sweep, that collides in ps at a distance
\* above 0 (the empty set if there is none).
PrimerChoque(ps) ==
    {a \in Pares(ps) :
        /\ a \notin Coincidentes(ps)
        /\ colisiona_con(ps[a[1]], ps[a[2]])
        /\ \A b \in Pares(ps) :
            (Posterior(b, a) /\ colisiona_con(ps[b[1]], ps[b[2]]))
                => b \in Coincidentes(ps)}

\* C17: _resolver_colision on a pair at distance 0 changes neither particle;
\* a sweep leaves every particle that belongs to no other colliding pair as it
\* found it, and goes on to the remaining pairs: the first colliding pair at a
\* distance above 0 is resolved, whatever coincident pairs come before it.
C17_CentrosCoincidentes ==
    /\ \A a \in Coincidentes(particulas) :
        resolver_colision(particulas[a[1]], particulas[a[2]])
            = <<particulas[a[1]], particulas[a[2]]>>
    /\ ultima.op = "detectar_colisiones" =>
        /\ \A k \in 1..Len(antes) :
            (\A a \in pares_resueltos(antes) : k \notin {a[1], a[2]})
                => particulas[k] = antes[k]
        /\ Coincidentes(antes) # {} =>
            \A a \in PrimerChoque(antes) :
                /\ a \in pares_resueltos(antes)
                /\ (\A b \in pares_resueltos(antes) :
                        Posterior(a, b) => {a[1], a[2]} \cap {b[1], b[2]} = {})
                    => <<particulas[a[1]], particulas[a[2]]>>
                        = resolver_colision(antes[a[1]], antes[a[2]])

\* C17, witness: a sweep over an ensemble whose first pair coincides, with
\* different velocities, has gone past that pair and has resolved the pairs
\* that the third particle forms with each of the two.
C17_Testigo ==
    /\ ultima.op = "detectar_colisiones"
    /\ <<1, 2>> \in Coincidentes(antes)
    /\ antes[1].velocidad # antes[2].velocidad
    /\ pares_resueltos(antes) = {<<1, 3>>, <<2, 3>>}
    /\ particulas[3].posicion # antes[3].posicion

\* colisionar_pared took p to q, clamped and pointing inward, in the box tamano.
AjusteHaciaDentro(p, q, tamano) ==
    \A c \in 1..2 :
        /\ p.posicion[c] - p.radio <= 0
            => (q.posicion[c] = p.radio /\ q.velocidad[c] >= 0)
        /\ p.posicion[c] + p.radio >= tamano[c]
            => (q.posicion[c] = tamano[c] - p.radio /\ q.velocidad[c] <= 0)
        /\ p.radio <= q.posicion[c]
        /\ q.posicion[c] <= tamano[c] - p.radio

\* C18: after colisionar_pared(ancho, alto), on each axis, a particle that was
\* at or beyond the lower wall is at radio with a velocity component >= 0, one
\* that was at or beyond the upper wall is at size - radio with a component
\* <= 0, both axes are corrected in the same call, and the position lies in
\* [radio, size - radio] on both axes.
C18_AjusteEnPared ==
    ultima.op = "colisionar_pared"
        => AjusteHaciaDentro(antes[1], particulas[1], <<ultima.ancho, ultima.alto>>)

\* C18, for boxes wider and higher than the particle's diameter: the same
\* statement for every box with ancho > 2 * radio and alto > 2 * radio.
C18_AjusteEnParedCajaHolgada ==
    (ultima.op = "colisionar_pared"
     /\ CajaHolgada(<<ultima.ancho, ultima.alto>>, antes[1].radio))
        => AjusteHaciaDentro(antes[1], particulas[1], <<ultima.ancho, ultima.alto>>)

\* C18, witness: a corner hit in such a box: the particle was beyond the left
\* wall and beyond the upper wall, moving towards both, and one call has
\* corrected both axes.
C18_Testigo ==
    /\ ultima.op = "colisionar_pared"
    /\ CajaHolgada(<<ultima.ancho, ultima.alto>>, antes[1].radio)
    /\ antes[1].posicion[1] - antes[1].radio < 0
    /\ antes[1].velocidad[1] < 0
    /\ antes[1].posicion[2] + antes[1].radio > ultima.alto
    /\ antes[1].velocidad[2] > 0
    /\ particulas[1].posicion = <<antes[1].radio, ultima.alto - antes[1].radio>>
    /\ particulas[1].velocidad = <<-antes[1].velocidad[1], -antes[1].velocidad[2]>>

\* Particle p is strictly inside the square box of side caja on both axes.
DentroEstricto(p, caja) ==
    \A c \in 1..2 : p.radio < p.posicion[c] /\ p.posicion[c] < caja - p.radio

\* C19: aplicar_condiciones_frontera leaves the position and velocity of a
\* particle strictly inside the box as they were, and for any ensemble state a
\* second call in a row leaves every particle as the first call left it.
C19_FronteraIdempotente ==
    ultima.op = "frontera" =>
        /\ \A k \in 1..Len(antes) :
            DentroEstricto(antes[k], tamano_caja)
                => /\ particulas[k].posicion = antes[k].posicion
                   /\ particulas[k].velocidad = antes[k].velocidad
        /\ ultima.k >= 2 => particulas = antes
        /\ aplicar_condiciones_frontera(particulas, tamano_caja) = particulas

\* C19, witness: the second call in a row finds the particle where the first
\* call clamped it, touching the left wall and moving away from it, and leaves
\* it there.
C19_Testigo ==
    /\ ultima.op = "frontera"
    /\ ultima.k = 2
    /\ tamano_caja > 2 * particulas[1].radio
    /\ particulas[1].posicion[1] = particulas[1].radio
    /\ particulas[1].velocidad[1] > 0
    /\ particulas = antes

\* C20: no call changes tamano_caja or dt of the Simulacion, nor the mass,
\* radius or id of a particle of the ensemble: they stay as the constructor and
\* the creation of the particle set them.
C20_Inmutables ==
    [][/\ tamano_caja' = tamano_caja
       /\ dt' = dt
       /\ \A k \in 1..Len(particulas) :
            /\ k <= Len(particulas')
            /\ particulas'[k].masa = particulas[k].masa
            /\ particulas'[k].radio = particulas[k].radio
            /\ particulas'[k].id = particulas[k].id]_vars

\* The quotients <<a, b>> and <<c, d>> are the same number.
MismoCociente(q, r) == q[1] * r[2] = r[1] * q[2]

\* C21: between calls, before population, after one and after repeated
\* population, calcular_presion() is N * k_B * temperatura() / A with N the
\* number of particles in the ensemble and A the square of tamano_caja.
C21_PresionDelConjunto ==
    pc = "idle" =>
        LET t == temperatura(particulas)
        IN MismoCociente(calcular_presion(particulas, n_particulas, tamano_caja),
                         <<Len(particulas) * k_B * t[1],
                           t[2] * tamano_caja * tamano_caja>>)

\* (v2 - v1) . r: the relative velocity of the pair ps along r, times |r|.
RelativaNormal(ps, r) ==
    Dot(<<ps[2].velocidad[1] - ps[1].velocidad[1],
          ps[2].velocidad[2] - ps[1].velocidad[2]>>, r)

\* The pair ps is within contact distance, centres apart: 0 < d <= radio1 + radio2.
EnContacto(ps) ==
    /\ distancia_cuad(ps[1], ps[2]) > 0
    /\ colisiona_con(ps[1], ps[2])

\* The pair ps touches: d = radio1 + radio2.
Tocandose(ps) == distancia_cuad(ps[1], ps[2]) = ContactoCuad(ps[1], ps[2])

\* C22: _resolver_colision on a pair with 0 < d <= radio1 + radio2 negates
\* the relative velocity along the normal, whether the pair was approaching or
\* separating; on a touching pair the positions stay and a second resolution
\* in a row gives both particles their original velocities back.
C22_NormalNegada ==
    (ultima.op = "resolver" /\ EnContacto(antes)) =>
        /\ RelativaNormal(particulas, Separacion(antes))
            = -RelativaNormal(antes, Separacion(antes))
        /\ Tocandose(antes) =>
            /\ particulas[1].posicion = antes[1].posicion
            /\ particulas[2].posicion = antes[2].posicion
            /\ resolver_exacto(particulas[1], particulas[2])
            /\ resolver_colision(particulas[1], particulas[2]) = antes

\* C22, witness: a touching pair that was separating along an oblique normal
\* has been resolved twice in a row: the first resolution turned it into an
\* approaching pair, the second has turned it back.
C22_Testigo ==
    /\ ultima.op = "resolver"
    /\ nops = 2
    /\ Tocandose(antes)
    /\ Separacion(antes)[1] # 0
    /\ Separacion(antes)[2] # 0
    /\ RelativaNormal(antes, Separacion(antes)) < 0
    /\ RelativaNormal(particulas, Separacion(antes)) > 0
    /\ particulas[1].velocidad # antes[1].velocidad

====
